---------------------------- MODULE Spec2Model ----------------------------
(***************************************************************************)
(* Titanic Insights: the Query Gateway of src/server.ts (bootstrap of the  *)
(* in-memory table, POST /api/query) and the Chat Orchestrator of          *)
(* src/src/App.tsx (handleSubmit and the state it keeps).                  *)
(*                                                                         *)
(* Strings that the code inspects (trim, toUpperCase, startsWith, String,  *)
(* Number) are sequences of one-character strings; texts that are only     *)
(* carried around (answers, error messages, column names) are TLA+         *)
(* strings.                                                                *)
(***************************************************************************)
EXTENDS Integers, Sequences, FiniteSets, TLC

(***************************************************************************)
(* Bounds of the model.                                                    *)
(***************************************************************************)
\* accepted submissions explored per session
MaxTurns == 2
\* milliseconds the clock may advance past its initial reading
MaxTick == 1
\* requests of other sessions whose responses are kept for inspection
MaxRequests == 2

(***************************************************************************)
(* JavaScript strings.                                                     *)
(***************************************************************************)
LowerLetters ==
    <<"a", "b", "c", "d", "e", "f", "g", "h", "i", "j", "k", "l", "m",
      "n", "o", "p", "q", "r", "s", "t", "u", "v", "w", "x", "y", "z">>

UpperLetters ==
    <<"A", "B", "C", "D", "E", "F", "G", "H", "I", "J", "K", "L", "M",
      "N", "O", "P", "Q", "R", "S", "T", "U", "V", "W", "X", "Y", "Z">>

DigitChars == <<"0", "1", "2", "3", "4", "5", "6", "7", "8", "9">>

WhiteSpace == {" ", "\t", "\n"}

ToUpperChar(c) ==
    IF \E i \in 1..Len(LowerLetters) : LowerLetters[i] = c
    THEN UpperLetters[CHOOSE i \in 1..Len(LowerLetters) : LowerLetters[i] = c]
    ELSE c

\* String.prototype.toUpperCase
toUpperCase(s) == [i \in 1..Len(s) |-> ToUpperChar(s[i])]

RECURSIVE trimStart(_)
trimStart(s) ==
    IF s # <<>> /\ Head(s) \in WhiteSpace THEN trimStart(Tail(s)) ELSE s

RECURSIVE trimEnd(_)
trimEnd(s) ==
    IF s # <<>> /\ s[Len(s)] \in WhiteSpace
    THEN trimEnd(SubSeq(s, 1, Len(s) - 1))
    ELSE s

\* String.prototype.trim
trim(s) == trimEnd(trimStart(s))

\* String.prototype.startsWith
startsWith(s, p) == Len(s) >= Len(p) /\ SubSeq(s, 1, Len(p)) = p

(***************************************************************************)
(* JavaScript values, as far as the two programs meet them.                *)
(***************************************************************************)
Undef  == [t |-> "undefined", s |-> <<>>, n |-> 0]
Null   == [t |-> "null", s |-> <<>>, n |-> 0]
NaN    == [t |-> "NaN", s |-> <<>>, n |-> 0]
Obj    == [t |-> "object", s |-> <<>>, n |-> 0]
Str(s) == [t |-> "string", s |-> s, n |-> 0]
Num(n) == [t |-> "number", s |-> <<>>, n |-> n]

\* ToBoolean, as `!x` and `if (x)` apply it
Truthy(v) ==
    CASE v.t = "undefined" -> FALSE
      [] v.t = "null"      -> FALSE
      [] v.t = "NaN"       -> FALSE
      [] v.t = "string"    -> v.s # <<>>
      [] v.t = "number"    -> v.n # 0
      [] OTHER             -> TRUE

RECURSIVE NatDigits(_)
NatDigits(n) ==
    IF n < 10 THEN <<DigitChars[n + 1]>>
    ELSE NatDigits(n \div 10) \o <<DigitChars[(n % 10) + 1]>>

IntDigits(n) == IF n < 0 THEN <<"-">> \o NatDigits(0 - n) ELSE NatDigits(n)

\* String(v)
String(v) ==
    CASE v.t = "string"    -> v.s
      [] v.t = "number"    -> IntDigits(v.n)
      [] v.t = "null"      -> <<"n", "u", "l", "l">>
      [] v.t = "undefined" -> <<"u", "n", "d", "e", "f", "i", "n", "e", "d">>
      [] v.t = "NaN"       -> <<"N", "a", "N">>
      [] OTHER             -> <<"[", "o", "b", "j", "e", "c", "t", " ",
                                "O", "b", "j", "e", "c", "t", "]">>

IsDigit(c) == \E i \in 1..10 : DigitChars[i] = c

DigitValue(c) == (CHOOSE i \in 1..10 : DigitChars[i] = c) - 1

RECURSIVE DigitsValue(_)
DigitsValue(s) ==
    IF s = <<>> THEN 0
    ELSE 10 * DigitsValue(SubSeq(s, 1, Len(s) - 1)) + DigitValue(s[Len(s)])

AllDigits(s) == s # <<>> /\ \A i \in 1..Len(s) : IsDigit(s[i])

\* Number(string): decimal integer literals, the empty string, anything else
StringToNumber(s) ==
    LET u == trim(s) IN
    IF u = <<>> THEN Num(0)
    ELSE IF AllDigits(u) THEN Num(DigitsValue(u))
    ELSE IF Head(u) \in {"-", "+"} /\ AllDigits(Tail(u))
         THEN Num((IF Head(u) = "-" THEN -1 ELSE 1) * DigitsValue(Tail(u)))
    ELSE NaN

\* Number(v)
Number(v) ==
    CASE v.t = "number" -> v
      [] v.t = "null"   -> Num(0)
      [] v.t = "string" -> StringToNumber(v.s)
      [] OTHER          -> NaN

(***************************************************************************)
(* Query texts.                                                            *)
(***************************************************************************)
SELECT ==
    <<"S", "E", "L", "E", "C", "T">>

\* 'SELECT Pclass, COUNT(*) as cnt FROM titanic GROUP BY Pclass'
SQL_GROUP ==
    <<"S", "E", "L", "E", "C", "T", " ", "P", "c", "l", "a", "s", "s", ",", " ", "C", "O", "U", "N", "T", "(", "*", ")", " ", "a", "s", " ", "c", "n", "t", " ", "F", "R", "O", "M", " ", "t", "i", "t", "a", "n", "i", "c", " ", "G", "R", "O", "U", "P", " ", "B", "Y", " ", "P", "c", "l", "a", "s", "s">>

\* ' select PassengerId from titanic'
SQL_IDS ==
    <<" ", "s", "e", "l", "e", "c", "t", " ", "P", "a", "s", "s", "e", "n", "g", "e", "r", "I", "d", " ", "f", "r", "o", "m", " ", "t", "i", "t", "a", "n", "i", "c">>

\* 'SELECT Pclass, Sex FROM titanic'
SQL_SEX ==
    <<"S", "E", "L", "E", "C", "T", " ", "P", "c", "l", "a", "s", "s", ",", " ", "S", "e", "x", " ", "F", "R", "O", "M", " ", "t", "i", "t", "a", "n", "i", "c">>

\* 'SELECT Sex, Age FROM titanic'
SQL_AGE ==
    <<"S", "E", "L", "E", "C", "T", " ", "S", "e", "x", ",", " ", "A", "g", "e", " ", "F", "R", "O", "M", " ", "t", "i", "t", "a", "n", "i", "c">>

\* 'SELECT Pclass, Survived FROM titanic WHERE 0'
SQL_NONE ==
    <<"S", "E", "L", "E", "C", "T", " ", "P", "c", "l", "a", "s", "s", ",", " ", "S", "u", "r", "v", "i", "v", "e", "d", " ", "F", "R", "O", "M", " ", "t", "i", "t", "a", "n", "i", "c", " ", "W", "H", "E", "R", "E", " ", "0">>

\* 'SELECT nope FROM titanic'
SQL_BADCOL ==
    <<"S", "E", "L", "E", "C", "T", " ", "n", "o", "p", "e", " ", "F", "R", "O", "M", " ", "t", "i", "t", "a", "n", "i", "c">>

\* 'DELETE FROM titanic'
SQL_DELETE ==
    <<"D", "E", "L", "E", "T", "E", " ", "F", "R", "O", "M", " ", "t", "i", "t", "a", "n", "i", "c">>

\* 'DELETE FROM titanic RETURNING *'
SQL_DELRET ==
    <<"D", "E", "L", "E", "T", "E", " ", "F", "R", "O", "M", " ", "t", "i", "t", "a", "n", "i", "c", " ", "R", "E", "T", "U", "R", "N", "I", "N", "G", " ", "*">>

\* 'SELECT 1; DELETE FROM titanic'
SQL_MULTI ==
    <<"S", "E", "L", "E", "C", "T", " ", "1", ";", " ", "D", "E", "L", "E", "T", "E", " ", "F", "R", "O", "M", " ", "t", "i", "t", "a", "n", "i", "c">>

\* 'SELECTED'
SQL_SELECTED ==
    <<"S", "E", "L", "E", "C", "T", "E", "D">>

\* ' \t '
SQL_BLANK ==
    <<" ", "\t", " ">>

SQL_EMPTY ==
    <<>>

MALE == <<"m", "a", "l", "e">>

FEMALE == <<"f", "e", "m", "a", "l", "e">>


(***************************************************************************)
(* The Tabular Store: the table titanic of the in-memory database.  A      *)
(* record keeps the columns the query texts above mention; the other       *)
(* columns of the table are carried the same way.  Age is nullable.        *)
(***************************************************************************)
Rec(id, surv, cls, sex, age) ==
    [PassengerId |-> id, Survived |-> surv, Pclass |-> cls, Sex |-> sex, Age |-> age]

\* the rows Papa.parse yields: PassengerId is a number, or null when the
\* field is empty (dynamicTyping)
CsvRow(id, surv, cls, sex, age) ==
    [PassengerId |-> id, Survived |-> surv, Pclass |-> cls, Sex |-> sex, Age |-> age]

\* three passengers in class 1, two in class 3, one row without identifier
CSV_SPEC ==
    << CsvRow(Num(1), 1, 1, FEMALE, Num(29)),
       CsvRow(Num(2), 0, 1, MALE, Null),
       CsvRow(Null, 0, 2, MALE, Num(40)),
       CsvRow(Num(3), 1, 1, FEMALE, Num(2)),
       CsvRow(Num(4), 0, 3, MALE, Num(30)),
       CsvRow(Num(5), 1, 3, FEMALE, Null) >>

\* an identifier 0 and a repeated identifier
CSV_DUP ==
    << CsvRow(Num(0), 1, 2, MALE, Num(50)),
       CsvRow(Num(7), 1, 2, FEMALE, Num(18)),
       CsvRow(Num(7), 0, 3, MALE, Num(21)),
       CsvRow(Num(8), 0, 1, MALE, Num(60)) >>

\* titanic.csv as the process may find it; exists = FALSE: readFileSync throws
CsvFiles ==
    { [exists |-> TRUE, rows |-> CSV_SPEC],
      [exists |-> TRUE, rows |-> CSV_DUP],
      [exists |-> FALSE, rows |-> << >>] }

Ids(d) == {r.PassengerId : r \in d}

RECURSIVE SortNat(_)
SortNat(S) ==
    IF S = {} THEN << >>
    ELSE LET m == CHOOSE x \in S : \A y \in S : x <= y
         IN <<m>> \o SortNat(S \ {m})

\* the records in rowid order, which is PassengerId order
ByRowid(d) ==
    LET ids == SortNat(Ids(d))
    IN [i \in 1..Len(ids) |-> CHOOSE r \in d : r.PassengerId = ids[i]]

\* A result row: the sequence of its <<column name, value>> pairs, in
\* column order (a JavaScript object keeps its keys in insertion order).
GroupRows(d) ==
    LET cs == SortNat({r.Pclass : r \in d})
    IN [i \in 1..Len(cs) |->
          << <<"Pclass", Num(cs[i])>>,
             <<"cnt", Num(Cardinality({r \in d : r.Pclass = cs[i]}))>> >>]

IdRows(d) ==
    LET rs == ByRowid(d)
    IN [i \in 1..Len(rs) |-> << <<"PassengerId", Num(rs[i].PassengerId)>> >>]

SexRows(d) ==
    LET rs == ByRowid(d)
    IN [i \in 1..Len(rs) |->
          << <<"Pclass", Num(rs[i].Pclass)>>, <<"Sex", Str(rs[i].Sex)>> >>]

AgeRows(d) ==
    LET rs == ByRowid(d)
    IN [i \in 1..Len(rs) |->
          << <<"Sex", Str(rs[i].Sex)>>, <<"Age", rs[i].Age>> >>]

AllRows(d) ==
    LET rs == ByRowid(d)
    IN [i \in 1..Len(rs) |->
          << <<"PassengerId", Num(rs[i].PassengerId)>>,
             <<"Survived", Num(rs[i].Survived)>>,
             <<"Pclass", Num(rs[i].Pclass)>>,
             <<"Sex", Str(rs[i].Sex)>>,
             <<"Age", rs[i].Age>> >>]

Rows(rows, d) == [ok |-> TRUE, rows |-> rows, err |-> "", db |-> d]

Throws(msg, d) == [ok |-> FALSE, rows |-> << >>, err |-> msg, db |-> d]

\* db.prepare(sql).all(): what the store does with a query text.  te: the
\* table exists; d: its records.  prepare refuses a text holding more than
\* one statement, all() refuses a statement that returns no data, and a
\* statement that returns data is executed, whatever it does to the table.
StoreAll(sql, te, d) ==
    IF sql = SQL_MULTI
    THEN Throws("The supplied SQL string contains more than one statement", d)
    ELSE IF sql \in {SQL_GROUP, SQL_IDS, SQL_SEX, SQL_AGE, SQL_NONE,
                     SQL_BADCOL, SQL_DELETE, SQL_DELRET}
    THEN IF ~te THEN Throws("no such table: titanic", d)
         ELSE CASE sql = SQL_BADCOL -> Throws("no such column: nope", d)
                [] sql = SQL_DELETE ->
                     Throws("This statement does not return data. Use run() instead", d)
                [] sql = SQL_DELRET -> Rows(AllRows(d), {})
                [] sql = SQL_GROUP  -> Rows(GroupRows(d), d)
                [] sql = SQL_IDS    -> Rows(IdRows(d), d)
                [] sql = SQL_SEX    -> Rows(SexRows(d), d)
                [] sql = SQL_AGE    -> Rows(AgeRows(d), d)
                [] sql = SQL_NONE   -> Rows(<< >>, d)
    ELSE Throws("syntax error", d)

(***************************************************************************)
(* The Query Gateway: POST /api/query.                                     *)
(***************************************************************************)
\* what one request did: the status and body of the response, the texts
\* handed to db.prepare, and the records of the table afterwards
Reply(status, data, error, prepared, d) ==
    [status |-> status, data |-> data, error |-> error,
     prepared |-> prepared, db |-> d]

\* a variant: if (!sql || (typeof sql === "string" && !sql.trim()))
SqlMissing_OrBlank(sql) ==
    ~Truthy(sql) \/ (sql.t = "string" /\ trim(sql.s) = << >>)

\* a variant: if (sql === undefined)
SqlMissing_OnlyUndefined(sql) == sql.t = "undefined"

\* if (!sql)
SqlMissing(sql) == ~Truthy(sql)

\* a variant: the prefix check left out
IsSelect_Unchecked(s) == TRUE

\* sql.trim().toUpperCase().startsWith("SELECT")
IsSelect(s) == startsWith(toUpperCase(trim(s)), SELECT)

\* a variant: the catch block answers res.json({ data: [], error: error.message })
QueryHandler_CatchAnswers200(sql, te, d) ==
    IF SqlMissing(sql)
    THEN Reply(400, << >>, "No SQL query provided", << >>, d)
    ELSE IF sql.t # "string"
    THEN Reply(200, << >>, "sql.trim is not a function", << >>, d)
    ELSE IF ~IsSelect(sql.s)
    THEN Reply(403, << >>, "Only SELECT queries are allowed", << >>, d)
    ELSE LET r == StoreAll(sql.s, te, d)
         IN IF r.ok
            THEN Reply(200, r.rows, "", <<sql.s>>, r.db)
            ELSE Reply(200, << >>, r.err, <<sql.s>>, r.db)

\* the handler; it awaits nothing, so a request is served in one step
QueryHandler(sql, te, d) ==
    IF SqlMissing(sql)
    THEN Reply(400, << >>, "No SQL query provided", << >>, d)
    ELSE IF sql.t # "string"
    THEN \* sql.trim is not a function: a TypeError, caught
         Reply(500, << >>, "sql.trim is not a function", << >>, d)
    ELSE IF ~IsSelect(sql.s)
    THEN Reply(403, << >>, "Only SELECT queries are allowed", << >>, d)
    ELSE LET r == StoreAll(sql.s, te, d)
         IN IF r.ok
            THEN Reply(200, r.rows, "", <<sql.s>>, r.db)
            ELSE Reply(500, << >>, r.err, <<sql.s>>, r.db)

\* the values a request body may carry as sql
SqlTexts ==
    {SQL_GROUP, SQL_IDS, SQL_SEX, SQL_AGE, SQL_NONE, SQL_BADCOL, SQL_DELETE,
     SQL_DELRET, SQL_MULTI, SQL_SELECTED, SQL_BLANK, SQL_EMPTY}

SqlValues == {Str(s) : s \in SqlTexts} \cup {Undef, Null, Num(0), Num(5), Obj}

\* what the other sessions send while this session is followed: a read and
\* three attempts to write
OtherSqlValues ==
    {Str(SQL_GROUP), Str(SQL_DELETE), Str(SQL_DELRET), Str(SQL_MULTI)}


(***************************************************************************)
(* The Chat Orchestrator: messages, plans and chart data.                  *)
(***************************************************************************)
\* result.chart?.type of a plan without chart, or of a chart without type
TypeUndef == "undefined"

NoChartSpec == [present |-> FALSE, type |-> TypeUndef, title |-> ""]

ChartSpec(type) == [present |-> TRUE, type |-> type, title |-> "Title"]

\* the object JSON.parse returns for a plan
Plan(answer, sql, chart) == [answer |-> answer, sql |-> sql, chart |-> chart]

ANSWER == Str(<<"4", "2">>)

\* JSON.parse("{}")
EmptyPlan == Plan(Undef, Undef, NoChartSpec)

Plans ==
    { Plan(ANSWER, Str(SQL_GROUP), ChartSpec("bar")),
      Plan(ANSWER, Str(SQL_GROUP), ChartSpec("none")),
      Plan(ANSWER, Str(SQL_GROUP), NoChartSpec),
      Plan(ANSWER, Str(SQL_GROUP), ChartSpec("scatter")),
      Plan(ANSWER, Str(SQL_SEX), ChartSpec("pie")),
      Plan(ANSWER, Str(SQL_AGE), ChartSpec("line")),
      Plan(ANSWER, Str(SQL_IDS), ChartSpec("line")),
      Plan(ANSWER, Str(SQL_NONE), ChartSpec("bar")),
      Plan(ANSWER, Str(SQL_BADCOL), ChartSpec("bar")),
      Plan(ANSWER, Str(SQL_DELETE), ChartSpec("none")),
      Plan(ANSWER, Str(SQL_EMPTY), ChartSpec("none")),
      Plan(ANSWER, Undef, NoChartSpec),
      Plan(ANSWER, Undef, ChartSpec("bar")) }

\* what ai.models.generateContent does: it throws, or it resolves with a
\* response whose text is undefined, empty, not JSON, the JSON null, or the
\* JSON text of a plan
PlannerReplies ==
    { [kind |-> "throw", plan |-> EmptyPlan],
      [kind |-> "undefined", plan |-> EmptyPlan],
      [kind |-> "empty", plan |-> EmptyPlan],
      [kind |-> "malformed", plan |-> EmptyPlan],
      [kind |-> "null", plan |-> EmptyPlan] }
    \cup { [kind |-> "object", plan |-> p] : p \in Plans }

\* a variant: a text that is not JSON is taken for "{}"
ParseReply_Lenient(reply) ==
    IF reply.kind = "null"
    THEN [ok |-> TRUE, isNull |-> TRUE, plan |-> EmptyPlan]
    ELSE [ok |-> TRUE, isNull |-> FALSE,
          plan |-> IF reply.kind = "object" THEN reply.plan ELSE EmptyPlan]

\* JSON.parse(response.text || "{}"): ok = FALSE when it throws, isNull when
\* the text is the JSON null
ParseReply(reply) ==
    CASE reply.kind \in {"undefined", "empty"} ->
           [ok |-> TRUE, isNull |-> FALSE, plan |-> EmptyPlan]
      [] reply.kind = "malformed" ->
           [ok |-> FALSE, isNull |-> FALSE, plan |-> EmptyPlan]
      [] reply.kind = "null" ->
           [ok |-> TRUE, isNull |-> TRUE, plan |-> EmptyPlan]
      [] OTHER ->
           [ok |-> TRUE, isNull |-> FALSE, plan |-> reply.plan]

NoChart == [present |-> FALSE, type |-> TypeUndef, title |-> "", data |-> << >>]

\* content: a text, or the apology built from an error's message
TextContent(v) == [kind |-> "text", text |-> v, error |-> ""]

ErrorContent(msg) == [kind |-> "error", text |-> Undef, error |-> msg]

Message(id, role, content, chart, sql, ts) ==
    [id |-> id, role |-> role, content |-> content, chart |-> chart,
     sql |-> sql, timestamp |-> ts]

Greeting(t) ==
    Message(<<"1">>, "assistant", TextContent(Str(<<"H", "e", "l", "l", "o", "!">>)),
            NoChart, Undef, t)

\* Object.keys(row)
Keys(row) == [i \in 1..Len(row) |-> row[i][1]]

\* row[key]
Get(row, key) ==
    IF \E i \in 1..Len(row) : row[i][1] = key
    THEN row[CHOOSE i \in 1..Len(row) : row[i][1] = key][2]
    ELSE Undef

\* a variant: an empty result is charted as one point "No data"
ChartPoints_Placeholder(data) ==
    IF Len(data) > 0
    THEN LET keys == Keys(data[1])
         IN IF Len(keys) >= 2
            THEN [i \in 1..Len(data) |->
                    [name  |-> String(Get(data[i], keys[1])),
                     value |-> Number(Get(data[i], keys[2]))]]
            ELSE << >>
    ELSE << [name |-> <<"N", "o", " ", "d", "a", "t", "a">>, value |-> Num(0)] >>

\* a variant: the two columns taken in the wrong order
ChartPoints_Swapped(data) ==
    IF Len(data) > 0
    THEN LET keys == Keys(data[1])
         IN IF Len(keys) >= 2
            THEN [i \in 1..Len(data) |->
                    [name  |-> String(Get(data[i], keys[2])),
                     value |-> Number(Get(data[i], keys[1]))]]
            ELSE << >>
    ELSE << >>

\* the chart data of a 200 response
ChartPoints(data) ==
    IF Len(data) > 0
    THEN LET keys == Keys(data[1])
         IN IF Len(keys) >= 2
            THEN [i \in 1..Len(data) |->
                    [name  |-> String(Get(data[i], keys[1])),
                     value |-> Number(Get(data[i], keys[2]))]]
            ELSE << >>
    ELSE << >>

\* queryResponse.ok
ResponseOk(status) == status >= 200 /\ status <= 299

\* result.chart?.type
PlanChartType(plan) == IF plan.chart.present THEN plan.chart.type ELSE TypeUndef

\* result.chart?.type !== 'none' ? { ...result.chart, data: chartData } : undefined
MessageChart(plan, chartData) ==
    IF PlanChartType(plan) # "none"
    THEN [present |-> TRUE, type |-> PlanChartType(plan),
          title |-> plan.chart.title, data |-> chartData]
    ELSE NoChart

\* a variant: if (!chart || chart.type === 'none') return null
Renders_IgnoresData(chart) == chart.present /\ chart.type # "none"

\* renderChart draws something
Renders(chart) ==
    chart.present /\ chart.type # "none" /\ Len(chart.data) # 0

\* what renderChart returns: null, or the chart its conditional picks
RenderChart(chart) ==
    IF ~Renders(chart) THEN "null"
    ELSE IF chart.type = "bar" THEN "BarChart"
    ELSE IF chart.type = "pie" THEN "PieChart"
    ELSE "LineChart"

\* {message.sql && (<details>...{message.sql}...</details>)}
DisclosesSql(message) == Truthy(message.sql)

\* {message.chart && renderChart(message.chart)}
DrawnChart(message) ==
    IF message.chart.present THEN RenderChart(message.chart) ELSE "null"

\* 'Embarkation ports', one of the suggestion buttons
SUGGESTION ==
    <<"E", "m", "b", "a", "r", "k", "a", "t", "i", "o", "n", " ", "p", "o", "r", "t", "s">>

Suggestions == { SUGGESTION }

\* a question typed with a space before and after it
TYPED == <<" ", "h", "i", " ">>

\* the values the input field may be given
Inputs == { << >>, <<" ">>, TYPED } \cup Suggestions

(***************************************************************************)
(* State.                                                                  *)
(*   server:  serverPc, csv, tableExists, db                               *)
(*   session: input, messages, isLoading (the React state), pc (where      *)
(*            handleSubmit is suspended), currentInput, result (its        *)
(*            locals), net (its fetch in flight), now (the last reading    *)
(*            of Date.now(), which never goes back)                        *)
(*   history: served (what the Gateway answered to the requests of other   *)
(*            sessions), turn (what the turn in hand has done)             *)
(***************************************************************************)
VARIABLES serverPc, csv, tableExists, db,
          input, messages, isLoading, pc, currentInput, result, net, now,
          served, turn

serverVars == <<serverPc, csv, tableExists, db>>

sessionVars == <<input, messages, isLoading, pc, currentInput, result, net>>

vars == <<serverPc, csv, tableExists, db,
          input, messages, isLoading, pc, currentInput, result, net, now,
          served, turn>>

\* the reading of Date.now() when the page is mounted
StartTime == 1000

NoNet == [kind |-> "none", sql |-> Undef, status |-> 0, data |-> << >>]

NoReply == [kind |-> "none", plan |-> EmptyPlan]

\* the turn in hand: its number, what the Planner replied, the sql values
\* sent to the Gateway, the path taken, the response and the chart data
NewTurn(n) ==
    [n |-> n, reply |-> NoReply, plannerDone |-> FALSE, sent |-> << >>,
     path |-> "pending", status |-> 0, data |-> << >>, points |-> << >>]

Init ==
    /\ serverPc = "boot"
    /\ csv = << >>
    /\ tableExists = FALSE
    /\ db = {}
    /\ served = << >>
    /\ now = StartTime
    /\ input = << >>
    /\ messages = <<Greeting(StartTime)>>
    /\ isLoading = FALSE
    /\ pc = "Idle"
    /\ currentInput = << >>
    /\ result = EmptyPlan
    /\ net = NoNet
    /\ turn = NewTurn(0)

(***************************************************************************)
(* Bootstrap of the server: read titanic.csv, create the table, insert.    *)
(***************************************************************************)
\* readFileSync, Papa.parse, CREATE TABLE; a missing file throws to the catch
ReadCsv(f) ==
    /\ serverPc = "boot"
    /\ IF f.exists
       THEN /\ tableExists' = TRUE
            /\ csv' = f.rows
            /\ serverPc' = "insert"
       ELSE /\ tableExists' = FALSE
            /\ csv' = << >>
            /\ serverPc' = "listening"
    /\ UNCHANGED <<db, served, sessionVars, now, turn>>

\* if (row.PassengerId)
HasId(row) == Truthy(row.PassengerId)

\* a variant: if (!row.PassengerId) break
InsertRow_StopsOnMissing ==
    /\ serverPc = "insert"
    /\ csv # << >>
    /\ LET row == Head(csv) IN
       IF HasId(row)
       THEN IF row.PassengerId.n \in Ids(db)
            THEN /\ serverPc' = "listening"
                 /\ UNCHANGED <<csv, db>>
            ELSE /\ db' = db \cup {Rec(row.PassengerId.n, row.Survived,
                                       row.Pclass, row.Sex, row.Age)}
                 /\ csv' = Tail(csv)
                 /\ UNCHANGED serverPc
       ELSE /\ serverPc' = "listening"
            /\ UNCHANGED <<csv, db>>
    /\ UNCHANGED <<tableExists, served, sessionVars, now, turn>>

\* one turn of the for loop; a repeated primary key makes insert.run throw,
\* which leaves the loop for the catch
InsertRow ==
    /\ serverPc = "insert"
    /\ csv # << >>
    /\ LET row == Head(csv) IN
       IF HasId(row)
       THEN IF row.PassengerId.n \in Ids(db)
            THEN /\ serverPc' = "listening"
                 /\ UNCHANGED <<csv, db>>
            ELSE /\ db' = db \cup {Rec(row.PassengerId.n, row.Survived,
                                       row.Pclass, row.Sex, row.Age)}
                 /\ csv' = Tail(csv)
                 /\ UNCHANGED serverPc
       ELSE /\ csv' = Tail(csv)
            /\ UNCHANGED <<serverPc, db>>
    /\ UNCHANGED <<tableExists, served, sessionVars, now, turn>>

\* the loop ends; startServer, app.listen
LoadDone ==
    /\ serverPc = "insert"
    /\ csv = << >>
    /\ serverPc' = "listening"
    /\ UNCHANGED <<csv, tableExists, db, served, sessionVars, now, turn>>

(***************************************************************************)
(* The Gateway serving a request of another session.                       *)
(***************************************************************************)
\* a request and its response, with the table before and after
Observed(sql, r, before) ==
    [sql |-> sql, status |-> r.status, data |-> r.data, error |-> r.error,
     prepared |-> r.prepared, before |-> before, after |-> r.db]

\* a request whose response is kept in served
DirectQuery(sql) ==
    /\ serverPc = "listening"
    /\ Len(served) < MaxRequests
    /\ LET r == QueryHandler(sql, tableExists, db) IN
       /\ db' = r.db
       /\ served' = Append(served, Observed(sql, r, db))
    /\ UNCHANGED <<serverPc, csv, tableExists, sessionVars, now, turn>>

\* a request of another session while this session runs
OtherSessionQuery(sql) ==
    /\ serverPc = "listening"
    /\ LET r == QueryHandler(sql, tableExists, db) IN db' = r.db
    /\ UNCHANGED <<serverPc, csv, tableExists, served, sessionVars, now, turn>>

(***************************************************************************)
(* handleSubmit.                                                           *)
(***************************************************************************)
\* a variant: if (!input.trim()) return
SubmitIgnored_NoLoading(in, loading) == trim(in) = << >>

\* if (!input.trim() || isLoading) return
SubmitIgnored(in, loading) == trim(in) = << >> \/ loading

\* a variant: content: input.trim()
UserMessage_Trimmed(in, t) ==
    Message(IntDigits(t), "user", TextContent(Str(trim(in))), NoChart, Undef, t)

UserMessage(in, t) ==
    Message(IntDigits(t), "user", TextContent(Str(in)), NoChart, Undef, t)

AssistantMessage(plan, chartData, t) ==
    Message(IntDigits(t + 1), "assistant", TextContent(plan.answer),
            MessageChart(plan, chartData), plan.sql, t)

ErrorMessage(msg, t) ==
    Message(IntDigits(t + 1), "assistant", ErrorContent(msg), NoChart, Undef, t)

\* a variant: the catch block builds its message and does not append it
AppendMessage_DropsError(prev, message) ==
    IF message.content.kind = "error" THEN prev ELSE Append(prev, message)

\* a variant: the catch block calls setMessages([errorMessage])
AppendMessage_Replaces(prev, message) ==
    IF message.content.kind = "error" THEN <<message>> ELSE Append(prev, message)

\* setMessages((prev) => [...prev, message])
AppendMessage(prev, message) == Append(prev, message)

\* a variant: body: JSON.stringify({ sql: result.sql.trim() })
RequestSql_Trimmed(plan) == Str(trim(plan.sql.s))

\* body: JSON.stringify({ sql: result.sql })
RequestSql(plan) == plan.sql

\* a variant: if (result.sql && result.chart?.type !== 'none')
HasQuery_OnlyWithChart(plan) == Truthy(plan.sql) /\ PlanChartType(plan) # "none"

\* if (result.sql)
HasQuery(plan) == Truthy(plan.sql)

\* the form is submitted (the guard of handleSubmit decides what follows)
Submit ==
    /\ serverPc = "listening"
    /\ IF SubmitIgnored(input, isLoading)
       THEN UNCHANGED <<sessionVars, turn, now>>
       ELSE /\ turn.n < MaxTurns
            /\ \E t \in (now)..(StartTime + MaxTick) :
                  /\ messages' = AppendMessage(messages, UserMessage(input, t))
                  /\ now' = t
            /\ currentInput' = input
            /\ input' = << >>
            /\ isLoading' = TRUE
            /\ pc' = "AwaitingPlan"
            /\ turn' = NewTurn(turn.n + 1)
            /\ UNCHANGED <<result, net>>
    /\ UNCHANGED <<serverVars, served>>

\* onChange of the input field, which is disabled while loading
SetInput(v) ==
    /\ serverPc = "listening"
    /\ ~isLoading
    /\ v # input
    /\ input' = v
    /\ UNCHANGED <<serverVars, served, messages, isLoading, pc, currentInput,
                   result, net, now, turn>>

\* a suggestion button, which is never disabled
ClickSuggestion(v) ==
    /\ serverPc = "listening"
    /\ v # input
    /\ input' = v
    /\ UNCHANGED <<serverVars, served, messages, isLoading, pc, currentInput,
                   result, net, now, turn>>

\* the try block runs to its end: the assistant message, then finally
Finish(path, plan, chartData, tr) ==
    /\ \E t \in (now)..(StartTime + MaxTick) :
          /\ messages' = AppendMessage(messages, AssistantMessage(plan, chartData, t))
          /\ now' = t
    /\ isLoading' = FALSE
    /\ pc' = "Idle"
    /\ result' = EmptyPlan
    /\ net' = NoNet
    /\ turn' = [tr EXCEPT !.path = path, !.status = net.status,
                          !.data = net.data, !.points = chartData]

\* a variant: the catch block without the finally block after it
Fail_KeepsLoading(path, msg, tr) ==
    /\ \E t \in (now)..(StartTime + MaxTick) :
          /\ messages' = AppendMessage(messages, ErrorMessage(msg, t))
          /\ now' = t
    /\ isLoading' = isLoading
    /\ pc' = "Idle"
    /\ result' = EmptyPlan
    /\ net' = NoNet
    /\ turn' = [tr EXCEPT !.path = path]

\* the catch block, then finally
Fail(path, msg, tr) ==
    /\ \E t \in (now)..(StartTime + MaxTick) :
          /\ messages' = AppendMessage(messages, ErrorMessage(msg, t))
          /\ now' = t
    /\ isLoading' = FALSE
    /\ pc' = "Idle"
    /\ result' = EmptyPlan
    /\ net' = NoNet
    /\ turn' = [tr EXCEPT !.path = path]

\* await ai.models.generateContent(...) settles; JSON.parse; if (result.sql)
PlannerSettles(reply) ==
    /\ pc = "AwaitingPlan"
    /\ LET tr == [turn EXCEPT !.reply = reply, !.plannerDone = TRUE] IN
       IF reply.kind = "throw"
       THEN Fail("plannerThrow", "planner call failed", tr)
       ELSE LET p == ParseReply(reply) IN
            IF ~p.ok
            THEN Fail("parseFail", "Unexpected token in JSON", tr)
            ELSE IF p.isNull
            THEN Fail("nullPlan", "Cannot read properties of null (reading 'sql')", tr)
            ELSE IF HasQuery(p.plan)
            THEN /\ net' = [kind |-> "request", sql |-> RequestSql(p.plan),
                            status |-> 0, data |-> << >>]
                 /\ pc' = "AwaitingQueryResult"
                 /\ result' = p.plan
                 /\ turn' = [tr EXCEPT !.sent = Append(@, RequestSql(p.plan))]
                 /\ UNCHANGED <<messages, isLoading, now>>
            ELSE Finish("noQuery", p.plan, << >>, tr)
    /\ UNCHANGED <<serverVars, served, input, currentInput>>

\* the Gateway serves the request of this session
GatewayServes ==
    /\ net.kind = "request"
    /\ serverPc = "listening"
    /\ LET r == QueryHandler(net.sql, tableExists, db) IN
       /\ db' = r.db
       /\ net' = [kind |-> "response", sql |-> net.sql, status |-> r.status,
                  data |-> r.data]
    /\ UNCHANGED <<serverPc, csv, tableExists, served, input, messages,
                   isLoading, pc, currentInput, result, now, turn>>

\* await fetch(...) resolves; if (queryResponse.ok) the chart data
FetchResolves ==
    /\ pc = "AwaitingQueryResult"
    /\ net.kind = "response"
    /\ IF ResponseOk(net.status)
       THEN Finish("success", result, ChartPoints(net.data), turn)
       ELSE Finish("gatewayNonOk", result, << >>, turn)
    /\ UNCHANGED <<serverVars, served, input, currentInput>>

\* await fetch(...) rejects: the network fails, before or after the Gateway
\* served the request
FetchRejects ==
    /\ pc = "AwaitingQueryResult"
    /\ net.kind \in {"request", "response"}
    /\ Fail("gatewayThrow", "Failed to fetch", turn)
    /\ UNCHANGED <<serverVars, served, input, currentInput>>

Boot ==
    \/ \E f \in CsvFiles : ReadCsv(f)
    \/ InsertRow
    \/ LoadDone

Next ==
    \/ Boot
    \/ \E sql \in OtherSqlValues : OtherSessionQuery(sql)
    \/ Submit
    \/ \E v \in Inputs : SetInput(v)
    \/ \E v \in Suggestions : ClickSuggestion(v)
    \/ \E reply \in PlannerReplies : PlannerSettles(reply)
    \/ GatewayServes
    \/ FetchResolves
    \/ FetchRejects

\* the server and the sessions, one of them observed
Spec == Init /\ [][Next]_vars

NextGateway ==
    \/ Boot
    \/ \E sql \in SqlValues : DirectQuery(sql)

\* the server alone, with the responses it gave
GatewaySpec == Init /\ [][NextGateway]_vars

\* the Planner call settles
PlannerResponds == \E reply \in PlannerReplies : PlannerSettles(reply)

\* the fetch settles
FetchSettles == FetchResolves \/ FetchRejects

\* Spec with calls that settle: a pending Planner call resolves or throws,
\* a pending fetch resolves or rejects, and the continuation of handleSubmit
\* then runs
FairSpec ==
    /\ Spec
    /\ WF_vars(PlannerResponds)
    /\ WF_vars(FetchSettles)

(***************************************************************************)
(* Helpers of the properties.                                              *)
(***************************************************************************)
Last(seq) == seq[Len(seq)]

IsPrefix(a, b) == Len(a) <= Len(b) /\ SubSeq(b, 1, Len(a)) = a

CountRole(msgs, role) == Cardinality({i \in 1..Len(msgs) : msgs[i].role = role})

\* s, freed of leading whitespace and upper-cased, begins with SELECT:
\* stated on the characters, without the string methods
BeginsWithSelect(s) ==
    \E k \in 0..Len(s) :
       /\ \A i \in 1..k : s[i] \in WhiteSpace
       /\ Len(s) >= k + 6
       /\ s[k + 1] \notin WhiteSpace
       /\ \A j \in 1..6 : ToUpperChar(s[k + j]) = SELECT[j]

\* the request did not reach the store: nothing was prepared, and the table
\* is as it was
StoreUntouched(o) == o.prepared = << >> /\ o.after = o.before

(***************************************************************************)
(* Properties of the Gateway, under GatewaySpec.                           *)
(***************************************************************************)
\* C1, as stated: every request whose sql is a string that, trimmed and
\* upper-cased, does not begin with SELECT is answered 403, and the store
\* is not invoked for it.
C1_AsStated ==
    \A i \in 1..Len(served) :
       (served[i].sql.t = "string" /\ ~BeginsWithSelect(served[i].sql.s))
          => (served[i].status = 403 /\ StoreUntouched(served[i]))

\* C1, amended: every request whose sql is a non-empty string that, trimmed
\* and upper-cased, does not begin with SELECT is answered 403; the empty
\* string is answered 400; the store is invoked for neither, whatever the
\* table holds.
C1_NonEmptyRejected403 ==
    \A i \in 1..Len(served) :
       (served[i].sql.t = "string" /\ ~BeginsWithSelect(served[i].sql.s))
          => /\ StoreUntouched(served[i])
             /\ served[i].status = (IF served[i].sql.s = << >> THEN 400 ELSE 403)

\* DELETE FROM titanic was answered 403 while the table held records
C1_Witness ==
    \E i \in 1..Len(served) :
       /\ served[i].sql = Str(SQL_DELETE)
       /\ served[i].status = 403
       /\ served[i].before # {}

\* C2: every request whose sql is empty or absent is answered 400, and the
\* store is not accessed for it.
C2_MissingRejected400 ==
    \A i \in 1..Len(served) :
       (served[i].sql \in {Undef, Str(SQL_EMPTY)})
          => (served[i].status = 400 /\ StoreUntouched(served[i]))

\* a request without sql and one with the empty string were both answered
\* 400 while the table held records
C2_Witness ==
    /\ Len(served) = 2
    /\ served[1].sql = Undef /\ served[1].status = 400
    /\ served[2].sql = Str(SQL_EMPTY) /\ served[2].status = 400
    /\ served[2].before # {}

(***************************************************************************)
(* Properties of the store and of the session, under Spec.                 *)
(***************************************************************************)
\* C3: once the server listens, no step changes the records of the table,
\* whatever this session and the other sessions send.
C3_StoreReadOnly == [][serverPc = "listening" => db' = db]_vars

\* this session's second turn got rows from a table that holds records
C3_Witness ==
    /\ turn.n = 2
    /\ turn.path = "success"
    /\ Len(turn.data) > 0
    /\ db # {}

\* C4: when handleSubmit is back at Idle, the history holds exactly one
\* assistant message per accepted submission (besides the greeting), and
\* while a turn is in flight it holds none for that turn yet.
C4_OneAssistantPerTurn ==
    /\ CountRole(messages, "user") = turn.n
    /\ pc = "Idle" => CountRole(messages, "assistant") = 1 + turn.n
    /\ pc # "Idle" => CountRole(messages, "assistant") = turn.n

\* two turns are over, the first through the catch block (the Planner
\* threw), the second through a Gateway response that was not OK
C4_Witness ==
    /\ pc = "Idle"
    /\ turn.n = 2
    /\ turn.path = "gatewayNonOk"
    /\ Len(messages) = 5
    /\ messages[3].content.kind = "error"

\* a step taken while loading is true appends no user message and starts no
\* turn and no Planner call
C5_WhileLoading ==
    isLoading =>
       /\ turn'.n = turn.n
       /\ CountRole(messages', "user") = CountRole(messages, "user")
       /\ (pc' = "AwaitingPlan" => pc = "AwaitingPlan")

\* C5: while loading is true no step, a submission included, appends a user
\* message or starts a turn or a Planner call; loading is true exactly while
\* a turn is in flight, so that once the turn is over, resolved or failed,
\* a non-empty input passes the guard of handleSubmit again.
C5_OneTurnInFlight ==
    /\ [][C5_WhileLoading]_vars
    /\ [](isLoading <=> pc # "Idle")
    /\ [](pc = "Idle" => ~SubmitIgnored(SUGGESTION, isLoading))

\* a second submission was accepted after the first turn had failed, and a
\* non-empty input is waiting in the field while the second turn is loading
C5_Witness ==
    /\ turn.n = 2
    /\ isLoading
    /\ input = SUGGESTION
    /\ messages[3].content.kind = "error"

\* C6, as stated: when the Gateway call of a turn threw or was answered
\* 400, 403 or 500, the assistant message of the turn is an error
\* description, and carries neither the plan's answer nor its SQL.
C6_AsStated ==
    (pc = "Idle" /\ turn.path \in {"gatewayThrow", "gatewayNonOk"})
       => /\ Last(messages).content.kind = "error"
          /\ Last(messages).sql = Undef

C8_OneRequestAfterPlan ==
    /\ (net.kind # "none" \/ turn.sent # << >>) =>
          (turn.plannerDone /\ turn.reply.kind = "object")
    /\ pc = "AwaitingPlan" => (net.kind = "none" /\ turn.sent = << >>)
    /\ Len(turn.sent) <= 1
    /\ turn.sent # << >> => turn.sent[1] = turn.reply.plan.sql
    /\ net.kind # "none" => (turn.sent # << >> /\ net.sql = turn.reply.plan.sql)

\* the request of a turn is in flight with a query text that trimming would
\* change
C8_Witness ==
    /\ pc = "AwaitingQueryResult"
    /\ net.kind = "request"
    /\ net.sql = Str(SQL_IDS)
    /\ turn.n = 2

\* the history is the greeting, then for each turn its user message and,
\* once the turn is over, its assistant message; timestamps never go back
C9_Ordered ==
    /\ messages[1] = Greeting(StartTime)
    /\ Len(messages) = 1 + 2 * turn.n - (IF pc = "Idle" THEN 0 ELSE 1)
    /\ \A i \in 2..Len(messages) :
          /\ messages[i].role = (IF i % 2 = 0 THEN "user" ELSE "assistant")
          /\ messages[i].timestamp >= messages[i - 1].timestamp

\* C9: every step, those of the error paths included, leaves the history
\* before it as a prefix of the history after it; the history is the
\* greeting followed by the turns in the order of their submission, each
\* the user message and then the assistant message.
C9_AppendOnly ==
    /\ [][IsPrefix(messages, messages')]_vars
    /\ []C9_Ordered

\* the second turn ended in the catch block and the first turn is still in
\* the history
C9_Witness ==
    /\ Len(messages) = 5
    /\ messages[5].content.kind = "error"
    /\ messages[3].content.kind = "text"
    /\ messages[2].role = "user"

\* the rows of the specification's example: three passengers in class 1,
\* two in class 3
ExampleRows ==
    << << <<"Pclass", Num(1)>>, <<"cnt", Num(3)>> >>,
       << <<"Pclass", Num(3)>>, <<"cnt", Num(2)>> >> >>

ExamplePoints ==
    << [name |-> <<"1">>, value |-> Num(3)],
       [name |-> <<"3">>, value |-> Num(2)] >>

\* C10: after a 200 response with at least one row, the chart data has one
\* point per row, in the order of the rows, name the string form of the
\* first column and value the numeric form of the second, when the rows
\* have two columns or more, and no point when they have fewer; the chart
\* of the assistant message, when it has one, carries these points.
C10_PointsFollowRows ==
    (pc = "Idle" /\ turn.path = "success" /\ Len(turn.data) >= 1) =>
       /\ Len(turn.data[1]) >= 2 =>
             /\ Len(turn.points) = Len(turn.data)
             /\ \A i \in 1..Len(turn.data) :
                   /\ turn.points[i].name = String(turn.data[i][1][2])
                   /\ turn.points[i].value = Number(turn.data[i][2][2])
       /\ Len(turn.data[1]) < 2 => turn.points = << >>
       /\ turn.data = ExampleRows => turn.points = ExamplePoints
       /\ Last(messages).chart.present =>
             Last(messages).chart.data = turn.points

\* the example: the rows [{Pclass:1,cnt:3},{Pclass:3,cnt:2}] gave the
\* points [{name:"1",value:3},{name:"3",value:2}], shown in a bar chart
C10_Witness ==
    /\ pc = "Idle"
    /\ turn.path = "success"
    /\ turn.sent = <<Str(SQL_GROUP)>>
    /\ turn.data = ExampleRows
    /\ Last(messages).chart.type = "bar"
    /\ Last(messages).chart.data = ExamplePoints

\* C11: when the Gateway answered the query of a turn 200 with zero rows,
\* the assistant message of the turn has no chart that renderChart draws,
\* whatever chart type the plan asked for.
C11_NoChartOnZeroRows ==
    (pc = "Idle" /\ turn.sent # << >> /\ turn.status = 200 /\ turn.data = << >>)
       => ~Renders(Last(messages).chart)

\* a plan asked for a bar chart of a query that matches no record of a
\* table that holds some; the message carries the chart, with no point
C11_Witness ==
    /\ pc = "Idle"
    /\ turn.sent = <<Str(SQL_NONE)>>
    /\ turn.status = 200
    /\ turn.data = << >>
    /\ db # {}
    /\ Last(messages).chart.present
    /\ Last(messages).chart.type = "bar"
    /\ Last(messages).chart.data = << >>

\* C12: when the plan the Planner returned holds no query string (the field
\* is absent or empty), the turn sends nothing to the Gateway and ends with
\* an assistant message whose content is the plan's answer, which discloses
\* no SQL and draws no chart, whatever chart the plan names.
C12_NoQueryNoRequest ==
    (turn.reply.kind = "object" /\ turn.reply.plan.sql \in {Undef, Str(SQL_EMPTY)})
       => /\ turn.sent = << >>
          /\ net.kind = "none"
          /\ pc = "Idle"
          /\ Last(messages).role = "assistant"
          /\ Last(messages).content = TextContent(turn.reply.plan.answer)
          /\ ~DisclosesSql(Last(messages))
          /\ DrawnChart(Last(messages)) = "null"

\* a plan without query that names a bar chart ended the second turn: the
\* message carries the answer and a bar chart without data
C12_Witness ==
    /\ turn.n = 2
    /\ turn.reply.kind = "object"
    /\ turn.reply.plan = Plan(ANSWER, Undef, ChartSpec("bar"))
    /\ turn.path = "noQuery"
    /\ Last(messages).content = TextContent(ANSWER)
    /\ Last(messages).chart.type = "bar"
    /\ Last(messages).chart.data = << >>

(***************************************************************************)
(* Properties of the Gateway, under GatewaySpec (continued).               *)
(***************************************************************************)
\* the request passes the two checks of the handler: sql is a non-empty
\* string that begins with SELECT once trimmed and upper-cased
PassesValidation(o) ==
    o.sql.t = "string" /\ o.sql.s # << >> /\ BeginsWithSelect(o.sql.s)

\* C13: for a request that passes validation the store is handed the sql
\* string as received, untrimmed; when the store returns rows the answer is
\* 200 with exactly these rows, and when it throws the answer is 500 with
\* the message of the store's error; a request that fails validation, or
\* whose execution fails, is never answered 200.
C13_ExecutesAsReceived ==
    \A i \in 1..Len(served) :
       LET o == served[i]
           r == StoreAll(o.sql.s, tableExists, o.before)
       IN /\ PassesValidation(o) =>
                /\ o.prepared = <<o.sql.s>>
                /\ r.ok  => (o.status = 200 /\ o.data = r.rows /\ o.error = "")
                /\ ~r.ok => (o.status = 500 /\ o.data = << >> /\ o.error = r.err)
          /\ o.status = 200 => (PassesValidation(o) /\ r.ok)

\* a query with a leading space and in lower case was handed over as it
\* came and answered 200 with one row per record, then a query on an
\* unknown column was answered 500 with the store's message
C13_Witness ==
    /\ Len(served) = 2
    /\ served[1].sql = Str(SQL_IDS)
    /\ served[1].prepared = <<SQL_IDS>>
    /\ served[1].status = 200
    /\ Len(served[1].data) = Cardinality(db)
    /\ db # {}
    /\ served[2].sql = Str(SQL_BADCOL)
    /\ served[2].status = 500
    /\ served[2].error = "no such column: nope"

(***************************************************************************)
(* Properties of the session (continued).                                  *)
(***************************************************************************)
\* a step taken while a turn is in flight that is not the settling of its
\* Planner call or of its fetch leaves the turn where it is, loading true
\* and the history as it is: no action of the user aborts the turn or
\* starts another
C14_NoAbort ==
    (pc # "Idle" /\ ~PlannerResponds /\ ~FetchSettles)
       => /\ pc' = pc
          /\ isLoading /\ isLoading'
          /\ turn' = turn
          /\ messages' = messages

\* C14: when the Planner call and the Gateway call of a turn settle, every
\* accepted submission leads back to Idle with loading false; as long as
\* they do not, the turn stays in its awaiting state with loading true,
\* whatever the user does.
C14_TurnEnds ==
    /\ (pc # "Idle" \/ isLoading) ~> (pc = "Idle" /\ ~isLoading)
    /\ [][C14_NoAbort]_vars

\* the second turn is back at Idle after its fetch was rejected, with the
\* suggestion the user clicked still in the input field
C14_Witness ==
    /\ turn.n = 2
    /\ turn.path = "gatewayThrow"
    /\ pc = "Idle"
    /\ ~isLoading
    /\ input = SUGGESTION

\* C15, as stated: the assistant message of a turn draws a chart only when
\* the plan of the turn carries a chart descriptor whose type is bar, pie
\* or line; a plan without chart descriptor, or with another type, draws
\* none, whatever rows the query returned.
C15_AsStated ==
    (pc = "Idle" /\ turn.reply.kind = "object")
       => (DrawnChart(Last(messages)) # "null"
             => /\ turn.reply.plan.chart.present
                /\ turn.reply.plan.chart.type \in {"bar", "pie", "line"})

\* C16: a turn whose Planner reply parsed to a plan sends a request to the
\* Gateway exactly when the plan holds a non-empty query string, whatever
\* its chart type; when such a turn ends with the message built from the
\* plan, the message carries and discloses the query string, also when the
\* chart type is "none".
C16_RequestIffQuery ==
    turn.reply.kind = "object" =>
       LET plan == turn.reply.plan
           hasText == plan.sql.t = "string" /\ plan.sql.s # << >>
       IN /\ (turn.sent # << >>) <=> hasText
          /\ (hasText /\ pc = "Idle" /\ turn.path # "gatewayThrow") =>
                /\ Last(messages).sql = plan.sql
                /\ DisclosesSql(Last(messages))

\* a plan of chart type "none" with a query: the request was sent and
\* answered, and the message discloses the query and has no chart
C16_Witness ==
    /\ pc = "Idle"
    /\ turn.reply.plan = Plan(ANSWER, Str(SQL_GROUP), ChartSpec("none"))
    /\ turn.sent = <<Str(SQL_GROUP)>>
    /\ turn.status = 200
    /\ Len(turn.data) > 0
    /\ Last(messages).sql = Str(SQL_GROUP)
    /\ ~Last(messages).chart.present

\* the text holds a character that is not whitespace
NonBlank(s) == \E i \in 1..Len(s) : s[i] \notin WhiteSpace

\* what a submission of the form does in its one step
C17_SubmitStep ==
    Submit =>
       IF NonBlank(input) /\ ~isLoading
       THEN /\ Len(messages') = Len(messages) + 1
            /\ IsPrefix(messages, messages')
            /\ Last(messages').role = "user"
            /\ Last(messages').content = TextContent(Str(input))
            /\ input' = << >>
            /\ isLoading'
            /\ pc' = "AwaitingPlan"
            /\ turn'.n = turn.n + 1
            /\ ~turn'.plannerDone
            /\ turn'.reply = NoReply
            /\ net' = NoNet
       ELSE UNCHANGED <<messages, input, isLoading, pc, turn, net>>

\* C17: a submission with an input that is not blank, made while loading is
\* false, appends in that one step a user message whose content is the
\* input as typed, untrimmed, empties the input field and sets loading
\* true, and the Planner call of the turn has not settled yet; a submission
\* with an empty or blank input changes neither the history nor the input
\* nor the loading flag and starts no Planner call.
C17_AcceptedSubmission ==
    /\ [][C17_SubmitStep]_vars
    /\ [](pc = "AwaitingPlan" =>
             /\ isLoading
             /\ ~turn.plannerDone
             /\ Last(messages).role = "user"
             /\ Last(messages).content = TextContent(Str(currentInput)))

\* the second turn was submitted with a question typed between two spaces:
\* the history ends with it as typed, the field is empty, loading is true
\* and the Planner has not replied
C17_Witness ==
    /\ turn.n = 2
    /\ pc = "AwaitingPlan"
    /\ isLoading
    /\ input = << >>
    /\ currentInput = TYPED
    /\ Len(messages) = 4
    /\ Last(messages).content = TextContent(Str(TYPED))

(***************************************************************************)
(* Properties of the bootstrap and of the Gateway, under GatewaySpec.      *)
(***************************************************************************)
\* the record was read from a row of titanic.csv that has an identifier
FromRowWithId(r) ==
    \E f \in CsvFiles : \E i \in 1..Len(f.rows) :
       /\ f.rows[i].PassengerId.t = "number"
       /\ f.rows[i].PassengerId.n # 0
       /\ r = Rec(f.rows[i].PassengerId.n, f.rows[i].Survived,
                  f.rows[i].Pclass, f.rows[i].Sex, f.rows[i].Age)

\* the loop is at a row whose identifier field is empty: the step drops the
\* row and goes on with the next one
C18_MissingIdSkipped ==
    (serverPc = "insert" /\ csv # << >> /\ Head(csv).PassengerId = Null)
       => /\ serverPc' = "insert"
          /\ csv' = Tail(csv)
          /\ db' = db

\* C18: during and after the load every record of the table stems from a
\* row that has an identifier, and no two records have the same identifier;
\* a row without identifier is dropped and the loop goes on, so that the
\* rows after it are in the table when the load is over.
C18_IdsPresentUnique ==
    /\ [](\A r \in db : FromRowWithId(r))
    /\ [](\A r1, r2 \in db : r1.PassengerId = r2.PassengerId => r1 = r2)
    /\ [][C18_MissingIdSkipped]_vars
    /\ []((serverPc = "listening" /\ 2 \in Ids(db)) => {3, 4, 5} \subseteq Ids(db))

\* the file whose third row has no identifier is loaded: the table holds
\* the five other rows, those after the third included
C18_Witness ==
    /\ serverPc = "listening"
    /\ Ids(db) = {1, 2, 3, 4, 5}
    /\ Cardinality(db) = 5

(***************************************************************************)
(* Properties of the session (continued).                                  *)
(***************************************************************************)
\* C19: the history begins with the greeting of the assistant and no two
\* neighbours in it have the same role; while loading is true its last
\* message is the user message of the turn in flight, and while loading is
\* false its last message is a message of the assistant.
C19_RolesAlternate ==
    /\ messages[1].role = "assistant"
    /\ messages[1].id = <<"1">>
    /\ \A i \in 1..(Len(messages) - 1) : messages[i].role # messages[i + 1].role
    /\ isLoading =>
          /\ Last(messages).role = "user"
          /\ Last(messages).content = TextContent(Str(currentInput))
          /\ Len(messages) = 2 * turn.n
    /\ ~isLoading => Last(messages).role = "assistant"

\* two turns are over, the first with an error message and the second with
\* an answer: greeting, user, assistant, user, assistant, and loading false
C19_Witness ==
    /\ ~isLoading
    /\ [i \in 1..Len(messages) |-> messages[i].role]
          = <<"assistant", "user", "assistant", "user", "assistant">>
    /\ messages[3].content.kind = "error"
    /\ messages[5].content.kind = "text"

(***************************************************************************)
(* Properties of the Gateway, under GatewaySpec (continued).               *)
(***************************************************************************)
\* C20: the store is handed a text only for a request whose sql is a string
\* that begins with SELECT once trimmed and upper-cased, and is left as it
\* was by every other request; a string of whitespace only is answered 403,
\* not 400; a sql that is truthy and not a string (a number other than 0,
\* an object, an array) is answered 500 and the store is not accessed.
C20_StoreOnlyForSelect ==
    \A i \in 1..Len(served) :
       LET o == served[i] IN
       /\ o.prepared # << >> => (o.sql.t = "string" /\ BeginsWithSelect(o.sql.s))
       /\ ~(o.sql.t = "string" /\ BeginsWithSelect(o.sql.s)) => StoreUntouched(o)
       /\ (o.sql.t = "string" /\ o.sql.s # << >>
             /\ \A k \in 1..Len(o.sql.s) : o.sql.s[k] \in WhiteSpace)
            => o.status = 403
       /\ (o.sql.t = "object" \/ (o.sql.t = "number" /\ o.sql.n # 0))
            => (o.status = 500 /\ StoreUntouched(o))

\* a string of spaces was answered 403 and an object 500, while the table
\* held records, and nothing was handed to the store
C20_Witness ==
    /\ Len(served) = 2
    /\ served[1].sql = Str(SQL_BLANK)
    /\ served[1].status = 403
    /\ served[2].sql = Obj
    /\ served[2].status = 500
    /\ served[2].prepared = << >>
    /\ served[2].before # {}

\* C21, as stated: in every reachable state no two messages of the history
\* carry the same id, the greeting with id '1' and a user message submitted
\* one millisecond after the assistant message before it included.
C21_AsStated ==
    \A i, j \in 1..Len(messages) :
       i # j => messages[i].id # messages[j].id

=============================================================================
